---- MODULE Spec2Model ----
(***************************************************************************)
(* FormatConverter of SRT-API-REST (src/format_converter.py): the          *)
(* conversion between the numbered-block (srt) and the cue-track (vtt)     *)
(* subtitle conventions.  A text is a sequence of one-character strings,   *)
(* so that strip, split, replace, isdigit, startswith and the substring    *)
(* test act on characters as they do in Python.  One call of               *)
(* convert_content is run statement by statement: each iteration of the    *)
(* scanning loops is one action.                                           *)
(***************************************************************************)
EXTENDS Integers, Sequences, FiniteSets, TLC

(***************************************************************************)
(* Bounds of the model.                                                    *)
(***************************************************************************)
\* longest free-form text, in lines
MaxLines == 3
\* most cues of a numbered-block document with one text line per cue
MaxCues == 2
\* most text lines of the cue of a multi-line document
MaxText == 3
\* most calls of convert_content chained by a round-trip caller
MaxCalls == 2

(***************************************************************************)
(* Python's str and list operations, on sequences of characters.           *)
(***************************************************************************)
\* the characters str.strip() removes (the ASCII ones the inputs draw from)
Whitespace == {" ", "\t", "\n", "\r"}

\* the characters str.isdigit() accepts (the ASCII ones)
Digits == {"0", "1", "2", "3", "4", "5", "6", "7", "8", "9"}

NL == "\n"

RECURSIVE LStrip(_)
LStrip(s) ==
  IF s = <<>> THEN s
  ELSE IF Head(s) \in Whitespace THEN LStrip(Tail(s)) ELSE s

RECURSIVE RStrip(_)
RStrip(s) ==
  IF s = <<>> THEN s
  ELSE IF s[Len(s)] \in Whitespace THEN RStrip(SubSeq(s, 1, Len(s) - 1)) ELSE s

\* s.strip()
Strip(s) == RStrip(LStrip(s))

\* s.split(sep) for a one-character sep: "".split(sep) is [""]
RECURSIVE Split(_, _)
Split(s, sep) ==
  IF \A k \in 1..Len(s) : s[k] # sep THEN <<s>>
  ELSE LET k == CHOOSE j \in 1..Len(s) :
                  s[j] = sep /\ \A h \in 1..(j - 1) : s[h] # sep
       IN <<SubSeq(s, 1, k - 1)>> \o Split(SubSeq(s, k + 1, Len(s)), sep)

\* sep.join(ls)
RECURSIVE Join(_, _)
Join(ls, sep) ==
  IF ls = <<>> THEN <<>>
  ELSE IF Len(ls) = 1 THEN ls[1]
  ELSE ls[1] \o <<sep>> \o Join(Tail(ls), sep)

\* s.isdigit(): false for the empty string
IsDigit(s) == s # <<>> /\ \A k \in 1..Len(s) : s[k] \in Digits

\* s.replace(a, b) for one-character a and b
Replace(s, a, b) == [k \in 1..Len(s) |-> IF s[k] = a THEN b ELSE s[k]]

\* sub in s
Contains(s, sub) ==
  \E k \in 1..(Len(s) - Len(sub) + 1) : SubSeq(s, k, k + Len(sub) - 1) = sub

\* s.startswith(p)
StartsWith(s, p) == Len(s) >= Len(p) /\ SubSeq(s, 1, Len(p)) = p

\* str(n) for n >= 0: the decimal digits of n
DigitChar(d) ==
  CASE d = 0 -> "0" [] d = 1 -> "1" [] d = 2 -> "2" [] d = 3 -> "3"
    [] d = 4 -> "4" [] d = 5 -> "5" [] d = 6 -> "6" [] d = 7 -> "7"
    [] d = 8 -> "8" [] d = 9 -> "9"

RECURSIVE Str(_)
Str(n) == IF n < 10 THEN <<DigitChar(n)>> ELSE Str(n \div 10) \o <<DigitChar(n % 10)>>

\* lines[i] is defined for 0 <= i < len(lines) (no negative index is used);
\* outside it Python raises IndexError
CanIndex(ls, k) == 0 <= k /\ k < Len(ls)

\* lines[i], with Python's index from 0
At(ls, k) == ls[k + 1]

(***************************************************************************)
(* Literals of the code.                                                   *)
(***************************************************************************)
WEBVTT == <<"W", "E", "B", "V", "T", "T">>
NOTE == <<"N", "O", "T", "E">>
Arrow == <<"-", "-", ">">>
Empty == <<>>

\* (faulty variant: the blank line after the signature is missing)
VttHeaderMut == <<WEBVTT>>
\* vtt_lines = ['WEBVTT', '']
VttHeader == <<WEBVTT, Empty>>

\* srt_lines = []
SrtHeader == <<>>

\* (faulty variant: a line that lacks the token is not taken as timing)
VttTimingChecked(line) == IF Contains(line, Arrow) THEN Replace(line, ",", ".") ELSE Empty
\* (faulty variant: the timing line is copied as it is)
VttTimingMut(line) == line
\* timing_line.replace(',', '.')
VttTiming(line) == Replace(line, ",", ".")

\* (faulty variant: the timing line is copied as it is)
SrtTimingMut(line) == line
\* line.replace('.', ',')
SrtTiming(line) == Replace(line, ".", ",")

\* the names convert_content dispatches on
Formats == {"srt", "vtt"}

(***************************************************************************)
(* Inputs.                                                                 *)
(***************************************************************************)
TimeA == <<"0", "0", ":", "0", "0", ":", "0", "1", ",", "0", "0", "0", " ", "-", "-", ">", " ", "0", "0", ":", "0", "0", ":", "0", "3", ",", "0", "0", "0">>
TimeADot == <<"0", "0", ":", "0", "0", ":", "0", "1", ".", "0", "0", "0", " ", "-", "-", ">", " ", "0", "0", ":", "0", "0", ":", "0", "3", ".", "0", "0", "0">>
\* a cue that ends before it starts
TimeB == <<"0", "0", ":", "0", "1", ":", "3", "5", ",", "0", "0", "0", " ", "-", "-", ">", " ", "0", "0", ":", "0", "1", ":", "3", "0", ",", "5", "0", "0">>
TimeBDot == <<"0", "0", ":", "0", "1", ":", "3", "5", ".", "0", "0", "0", " ", "-", "-", ">", " ", "0", "0", ":", "0", "1", ":", "3", "0", ".", "5", "0", "0">>
HelloWorld == <<"H", "e", "l", "l", "o", " ", "w", "o", "r", "l", "d">>
Hi == <<"H", "i">>
Padded == <<" ", "a", ",", " ", "b", ".">>
ArrowText == <<"x", " ", "-", "-", ">", " ", "y">>
NoteArrow == <<"N", "O", "T", "E", " ", "-", "-", ">", " ", "x">>
NoteText == <<"N", "O", "T", "E", " ", "x">>

\* the lines free-form texts are made of
GeneralLines ==
  { Empty, <<" ">>, <<"1", "2", " ">>, TimeA, TimeADot, Padded, WEBVTT, NoteArrow }

GeneralTexts ==
  { Join(ls, NL) : ls \in UNION { [1..n -> GeneralLines] : n \in 0..MaxLines } }

RECURSIVE Flatten(_)
Flatten(ss) == IF ss = <<>> THEN <<>> ELSE Head(ss) \o Flatten(Tail(ss))

\* numbered-block documents: blocks of marker, timing and one text line, a
\* blank line after each
SrtMarkers == { <<"1">>, <<"4", "2">> }
SrtTimes == { TimeA, TimeB }
SrtTexts == { HelloWorld, Padded, ArrowText, NoteText }
SrtBlocks == { <<m, t, x, Empty>> : m \in SrtMarkers, t \in SrtTimes, x \in SrtTexts }

SrtDocs ==
  { Join(Flatten(bs), NL) : bs \in UNION { [1..n -> SrtBlocks] : n \in 1..MaxCues } }

\* documents whose last cue has up to MaxText text lines; an optional
\* one-line cue precedes it
MultiTexts == { Hi, Padded, NoteText, <<"7">> }
MultiBodies == UNION { [1..n -> MultiTexts] : n \in 1..MaxText }

SrtMultiDocs ==
  { Join(pre \o <<<<"3">>, t>> \o body, NL) :
      pre \in { <<>>, <<<<"1">>, TimeA, HelloWorld, Empty>> },
      t \in SrtTimes, body \in MultiBodies }

VttMultiDocs ==
  { Join(<<WEBVTT, Empty>> \o pre \o <<t>> \o body \o <<Empty>>, NL) :
      pre \in { <<>>, <<TimeADot, HelloWorld, Empty>> },
      t \in { TimeADot, TimeBDot }, body \in MultiBodies }

Inputs == GeneralTexts \cup SrtDocs \cup SrtMultiDocs \cup VttMultiDocs

\* the format names a caller may pass: the two supported ones and another
FormatNames == {"srt", "vtt", "ass"}

(***************************************************************************)
(* State.                                                                  *)
(*   content, from_format, to_format   the arguments of the running call   *)
(*   pc          where the call stands                                     *)
(*   lines, i    the split input and the scan index (from 0, as in Python) *)
(*   out_lines   vtt_lines / srt_lines                                     *)
(*   kind        for each line of out_lines, the statement that appended   *)
(*               it: "sig", "blank", "index", "timing", "text"             *)
(*   subtitle_text, subtitle_number   the loop's locals                    *)
(*   result      what the call returned                                    *)
(*   exc         the exception the call raised, or "none"                  *)
(*   orig        the content of the first call of a chain                  *)
(*   calls       the calls made so far                                     *)
(***************************************************************************)
VARIABLES content, from_format, to_format, pc, lines, i, out_lines, kind,
          subtitle_text, subtitle_number, result, exc, orig, calls,
          valid_srt, valid_vtt,
          request, response, cache, now, retrieved, steps,
          running, suspended,
          self_cache, self_ttl, got, written,
          token, last_request_time, threads, remote_calls

\* the state of the running convert_content call
call == <<content, from_format, to_format, pc, lines, i, out_lines, kind,
          subtitle_text, subtitle_number, result, exc, orig, calls>>

\* what the validators returned
verdicts == <<valid_srt, valid_vtt>>

\* the request handlers of app.py, the cache and the subtitle service
api == <<request, response, cache, now, retrieved, steps>>

\* the calls that are not running
workers == <<running, suspended>>

\* the two maps of a CacheManager, what its last operation returned, and
\* (ghost) the entry last set under each key and not deleted or cleared since
manager == <<self_cache, self_ttl, got, written>>

\* a SubtitleService instance, the calls running on it, and (ghost) the remote
\* calls it has issued
service == <<token, last_request_time, threads, remote_calls>>

\* everything a step of convert_content leaves alone
outside == <<verdicts, api, workers, manager, service>>

vars == <<call, verdicts, api, workers, manager, service>>

args == <<content, from_format, to_format, orig, calls>>
locals == <<lines, i, out_lines, kind, subtitle_text, subtitle_number>>

\* no validator has been called
NoVerdicts == valid_srt = <<>> /\ valid_vtt = <<>>

\* no request has been handled, nothing is cached
ApiIdle ==
  /\ request = <<>>
  /\ response = <<>>
  /\ cache = <<>>
  /\ now = 0
  /\ retrieved = <<>>
  /\ steps = 0

\* one call only
NoWorkers == running = 0 /\ suspended = <<>>

\* no CacheManager operation in progress (the cache of the handlers is cache)
NoManager ==
  self_cache = <<>> /\ self_ttl = <<>> /\ got = <<>> /\ written = <<>>

\* no call on the SubtitleService in progress
NoService ==
  token = <<>> /\ last_request_time = 0 /\ threads = <<>> /\ remote_calls = <<>>

Init ==
  /\ content \in Inputs
  /\ from_format \in FormatNames
  /\ to_format \in FormatNames
  /\ pc = "call"
  /\ lines = <<>>
  /\ i = 0
  /\ out_lines = <<>>
  /\ kind = <<>>
  /\ subtitle_text = <<>>
  /\ subtitle_number = 0
  /\ result = <<>>
  /\ exc = "none"
  /\ orig = content
  /\ calls = 1
  /\ NoVerdicts
  /\ NoManager
  /\ NoService
  /\ ApiIdle
  /\ NoWorkers

(***************************************************************************)
(* convert_content                                                         *)
(***************************************************************************)
\* (faulty variant: the short cut is never taken)
SameFormatMut(f, t) == FALSE
\* if from_format == to_format
SameFormat(f, t) == f = t

\* return content
ReturnSame ==
  /\ pc = "call"
  /\ SameFormat(from_format, to_format)
  /\ pc' = "done"
  /\ result' = content
  /\ UNCHANGED <<args, locals, exc>>
  /\ UNCHANGED outside

\* return self._srt_to_vtt(content): its statements before the loop
CallSrtToVtt ==
  /\ pc = "call"
  /\ ~SameFormat(from_format, to_format)
  /\ from_format = "srt" /\ to_format = "vtt"
  /\ lines' = Split(Strip(content), NL)
  /\ out_lines' = VttHeader
  /\ kind' = <<"sig", "blank">>
  /\ i' = 0
  /\ pc' = "srt"
  /\ UNCHANGED <<args, subtitle_text, subtitle_number, result, exc>>
  /\ UNCHANGED outside

\* return self._vtt_to_srt(content): its statements before the loop
CallVttToSrt ==
  /\ pc = "call"
  /\ ~SameFormat(from_format, to_format)
  /\ ~(from_format = "srt" /\ to_format = "vtt")
  /\ from_format = "vtt" /\ to_format = "srt"
  /\ lines' = Split(Strip(content), NL)
  /\ out_lines' = SrtHeader
  /\ kind' = <<>>
  /\ subtitle_number' = 1
  /\ i' = 0
  /\ pc' = "vtt"
  /\ UNCHANGED <<args, subtitle_text, result, exc>>
  /\ UNCHANGED outside

\* raise ValueError(...)
RaiseUnsupported ==
  /\ pc = "call"
  /\ ~SameFormat(from_format, to_format)
  /\ ~(from_format = "srt" /\ to_format = "vtt")
  /\ ~(from_format = "vtt" /\ to_format = "srt")
  /\ pc' = "raised"
  /\ exc' = "ValueError"
  /\ UNCHANGED <<args, locals, result>>
  /\ UNCHANGED outside

(***************************************************************************)
(* _srt_to_vtt: the scan of lines 76-110                                   *)
(***************************************************************************)
\* while i < len(lines)
SrtScanning == pc = "srt" /\ i < Len(lines)

\* line == '' after strip: i += 1; continue
SrtSkipBlank ==
  /\ SrtScanning
  /\ Strip(At(lines, i)) = Empty
  /\ i' = i + 1
  /\ UNCHANGED <<args, pc, lines, out_lines, kind, subtitle_text,
                 subtitle_number, result, exc>>
  /\ UNCHANGED outside

\* (faulty variant: the line after the marker is read without the test)
SrtHasTimingMut(ls, k) == TRUE
\* if i < len(lines), after the marker's i += 1
SrtHasTiming(ls, k) == k < Len(ls)

\* line.isdigit(): the marker, and the line after it taken as timing line
SrtMarker ==
  /\ SrtScanning
  /\ Strip(At(lines, i)) # Empty
  /\ IsDigit(Strip(At(lines, i)))
  /\ IF SrtHasTiming(lines, i + 1)
       THEN IF CanIndex(lines, i + 1)
              THEN /\ out_lines' = Append(out_lines, VttTiming(Strip(At(lines, i + 1))))
                   /\ kind' = Append(kind, "timing")
                   /\ i' = i + 2
                   /\ subtitle_text' = <<>>
                   /\ pc' = "srt_text"
                   /\ UNCHANGED exc
              ELSE /\ i' = i + 1
                   /\ pc' = "raised"
                   /\ exc' = "IndexError"
                   /\ UNCHANGED <<out_lines, kind, subtitle_text>>
       ELSE /\ i' = i + 1
            /\ UNCHANGED <<pc, out_lines, kind, subtitle_text, exc>>
  /\ UNCHANGED <<args, lines, subtitle_number, result>>
  /\ UNCHANGED outside

\* else: i += 1
SrtSkipOther ==
  /\ SrtScanning
  /\ Strip(At(lines, i)) # Empty
  /\ ~IsDigit(Strip(At(lines, i)))
  /\ i' = i + 1
  /\ UNCHANGED <<args, pc, lines, out_lines, kind, subtitle_text,
                 subtitle_number, result, exc>>
  /\ UNCHANGED outside

\* while i < len(lines) and lines[i].strip() and not lines[i].strip().isdigit()
SrtTextContinues(ls, k) ==
  k < Len(ls) /\ Strip(At(ls, k)) # Empty /\ ~IsDigit(Strip(At(ls, k)))

\* (faulty variant: the line is put before the lines collected so far)
CollectMut(text, line) == <<line>> \o text
\* subtitle_text.append(lines[i].strip())
Collect(text, line) == Append(text, line)

\* (faulty variant: the text loop does not advance the index)
SrtCollectMut ==
  /\ pc = "srt_text"
  /\ SrtTextContinues(lines, i)
  /\ subtitle_text' = Collect(subtitle_text, Strip(At(lines, i)))
  /\ i' = i
  /\ UNCHANGED <<args, pc, lines, out_lines, kind, subtitle_number, result, exc>>
  /\ UNCHANGED outside

\* one iteration of the text loop
SrtCollect ==
  /\ pc = "srt_text"
  /\ SrtTextContinues(lines, i)
  /\ subtitle_text' = Collect(subtitle_text, Strip(At(lines, i)))
  /\ i' = i + 1
  /\ UNCHANGED <<args, pc, lines, out_lines, kind, subtitle_number, result, exc>>
  /\ UNCHANGED outside

\* the kinds of a cue's text lines and of the blank line after them
TextKinds(text) == [k \in 1..Len(text) |-> "text"] \o <<"blank">>

\* vtt_lines.extend(subtitle_text); vtt_lines.append('')
SrtEndCue ==
  /\ pc = "srt_text"
  /\ ~SrtTextContinues(lines, i)
  /\ out_lines' = out_lines \o subtitle_text \o <<Empty>>
  /\ kind' = kind \o TextKinds(subtitle_text)
  /\ pc' = "srt"
  /\ UNCHANGED <<args, lines, i, subtitle_text, subtitle_number, result, exc>>
  /\ UNCHANGED outside

\* return '\n'.join(vtt_lines)
SrtReturn ==
  /\ pc = "srt"
  /\ ~(i < Len(lines))
  /\ result' = Join(out_lines, NL)
  /\ pc' = "done"
  /\ UNCHANGED <<args, locals, exc>>
  /\ UNCHANGED outside

(***************************************************************************)
(* _vtt_to_srt: the scan of lines 127-162                                  *)
(***************************************************************************)
\* while i < len(lines)
VttScanning == pc = "vtt" /\ i < Len(lines)

\* line.startswith('WEBVTT') or line.startswith('NOTE') or not line
VttSkipped(line) == StartsWith(line, WEBVTT) \/ StartsWith(line, NOTE) \/ line = Empty

\* (faulty variant: only a period-punctuated line begins a cue)
IsTimingMut(line) == Contains(line, Arrow) /\ Contains(line, <<".">>)
\* '-->' in line
IsTiming(line) == Contains(line, Arrow)

\* i += 1; continue
VttSkipHeader ==
  /\ VttScanning
  /\ VttSkipped(Strip(At(lines, i)))
  /\ i' = i + 1
  /\ UNCHANGED <<args, pc, lines, out_lines, kind, subtitle_text,
                 subtitle_number, result, exc>>
  /\ UNCHANGED outside

\* the index line and the timing line of a cue
VttCue ==
  /\ VttScanning
  /\ ~VttSkipped(Strip(At(lines, i)))
  /\ IsTiming(Strip(At(lines, i)))
  /\ out_lines' = out_lines \o <<Str(subtitle_number), SrtTiming(Strip(At(lines, i)))>>
  /\ kind' = kind \o <<"index", "timing">>
  /\ i' = i + 1
  /\ subtitle_text' = <<>>
  /\ pc' = "vtt_text"
  /\ UNCHANGED <<args, lines, subtitle_number, result, exc>>
  /\ UNCHANGED outside

\* else: i += 1
VttSkipOther ==
  /\ VttScanning
  /\ ~VttSkipped(Strip(At(lines, i)))
  /\ ~IsTiming(Strip(At(lines, i)))
  /\ i' = i + 1
  /\ UNCHANGED <<args, pc, lines, out_lines, kind, subtitle_text,
                 subtitle_number, result, exc>>
  /\ UNCHANGED outside

\* the text loop goes on: i < len(lines), and no break on '-->' or a blank line
VttTextContinues(ls, k) ==
  k < Len(ls) /\ ~(IsTiming(Strip(At(ls, k))) \/ Strip(At(ls, k)) = Empty)

\* if line: subtitle_text.append(line); i += 1
VttCollect ==
  /\ pc = "vtt_text"
  /\ VttTextContinues(lines, i)
  /\ subtitle_text' = IF Strip(At(lines, i)) # Empty
                        THEN Collect(subtitle_text, Strip(At(lines, i)))
                        ELSE subtitle_text
  /\ i' = i + 1
  /\ UNCHANGED <<args, pc, lines, out_lines, kind, subtitle_number, result, exc>>
  /\ UNCHANGED outside

\* (faulty variant: the number is not incremented)
NextNumberMut(n) == n
\* subtitle_number += 1
NextNumber(n) == n + 1

\* srt_lines.extend(subtitle_text); srt_lines.append(''); subtitle_number += 1
VttEndCue ==
  /\ pc = "vtt_text"
  /\ ~VttTextContinues(lines, i)
  /\ out_lines' = out_lines \o subtitle_text \o <<Empty>>
  /\ kind' = kind \o TextKinds(subtitle_text)
  /\ subtitle_number' = NextNumber(subtitle_number)
  /\ pc' = "vtt"
  /\ UNCHANGED <<args, lines, i, subtitle_text, result, exc>>
  /\ UNCHANGED outside

\* return '\n'.join(srt_lines)
VttReturn ==
  /\ pc = "vtt"
  /\ ~(i < Len(lines))
  /\ result' = Join(out_lines, NL)
  /\ pc' = "done"
  /\ UNCHANGED <<args, locals, exc>>
  /\ UNCHANGED outside

(***************************************************************************)
(* A round-trip caller: the text returned by the srt to vtt conversion is  *)
(* passed to convert_content again, from vtt to srt.                       *)
(***************************************************************************)
ConvertBack ==
  /\ pc = "done"
  /\ calls < MaxCalls
  /\ from_format = "srt" /\ to_format = "vtt"
  /\ content' = result
  /\ from_format' = "vtt"
  /\ to_format' = "srt"
  /\ calls' = calls + 1
  /\ pc' = "call"
  /\ lines' = <<>>
  /\ i' = 0
  /\ out_lines' = <<>>
  /\ kind' = <<>>
  /\ subtitle_text' = <<>>
  /\ subtitle_number' = 0
  /\ result' = <<>>
  /\ UNCHANGED <<orig, exc>>
  /\ UNCHANGED outside

Next ==
  \/ ReturnSame
  \/ CallSrtToVtt
  \/ CallVttToSrt
  \/ RaiseUnsupported
  \/ SrtSkipBlank
  \/ SrtMarker
  \/ SrtSkipOther
  \/ SrtCollect
  \/ SrtEndCue
  \/ SrtReturn
  \/ VttSkipHeader
  \/ VttCue
  \/ VttSkipOther
  \/ VttCollect
  \/ VttEndCue
  \/ VttReturn
  \/ ConvertBack

Spec == Init /\ [][Next]_vars

(***************************************************************************)
(* Reading a text by the grammar of the specification, for the statements  *)
(* below: the text's lines, trimmed, and its blocks (the runs of non-blank *)
(* lines between blank lines).                                             *)
(***************************************************************************)
Trimmed(text) == LET ls == Split(text, NL) IN [k \in 1..Len(ls) |-> Strip(ls[k])]

\* a block starts at line j: the line is not blank and follows a blank line
\* or starts the text
BlockStart(ts, j) == ts[j] # Empty /\ (j = 1 \/ ts[j - 1] = Empty)

\* the last line of the block that holds line j
RECURSIVE BlockEnd(_, _)
BlockEnd(ts, j) ==
  IF j < Len(ts) /\ ts[j + 1] # Empty THEN BlockEnd(ts, j + 1) ELSE j

\* the blocks of a text, in order
Blocks(text) ==
  LET ts == Trimmed(text)
      RECURSIVE From(_)
      From(j) ==
        IF j > Len(ts) THEN <<>>
        ELSE IF BlockStart(ts, j)
          THEN <<SubSeq(ts, j, BlockEnd(ts, j))>> \o From(BlockEnd(ts, j) + 1)
          ELSE From(j + 1)
  IN From(1)

\* HH:MM:SS<sep>mmm
IsTimestamp(s, sep) ==
  /\ Len(s) = 12
  /\ \A k \in {1, 2, 4, 5, 7, 8, 10, 11, 12} : s[k] \in Digits
  /\ s[3] = ":" /\ s[6] = ":" /\ s[9] = sep

\* <time> --> <time> with the given fractional separator
IsTimingLine(s, sep) ==
  /\ Len(s) = 29
  /\ IsTimestamp(SubSeq(s, 1, 12), sep)
  /\ SubSeq(s, 13, 17) = <<" ">> \o Arrow \o <<" ">>
  /\ IsTimestamp(SubSeq(s, 18, 29), sep)

\* line a with each fractional separator written as sep, nothing else changed
Punctuated(a, sep) == [p \in 1..Len(a) |-> IF a[p] \in {",", "."} THEN sep ELSE a[p]]

\* the lines of out_lines of one kind, in order
RECURSIVE OfKind(_, _, _)
OfKind(ls, ks, k) ==
  IF ls = <<>> THEN <<>>
  ELSE (IF Head(ks) = k THEN <<Head(ls)>> ELSE <<>>) \o OfKind(Tail(ls), Tail(ks), k)

\* ls holds the lines of part, one after another, from position p
HoldsAt(ls, p, part) ==
  p + Len(part) - 1 <= Len(ls) /\ SubSeq(ls, p, p + Len(part) - 1) = part

Returned == pc = "done"
SrtToVttCall == from_format = "srt" /\ to_format = "vtt"
VttToSrtCall == from_format = "vtt" /\ to_format = "srt"

(***************************************************************************)
(* C1: convert_content(text, X, X) returns text unchanged, for every text  *)
(* and each supported X: the call returns (it does not raise), what it     *)
(* returns is its argument, and no line was split off or emitted.          *)
(***************************************************************************)
C1_Identity ==
  (pc # "call" /\ from_format = to_format /\ from_format \in Formats)
    => /\ pc = "done"
       /\ result = content
       /\ lines = <<>> /\ out_lines = <<>>

\* a text that a parse would change (a leading blank line, a period timing
\* line, a marker without timing) came back as it was
C1_Witness ==
  /\ pc = "done"
  /\ from_format = "srt" /\ to_format = "srt"
  /\ content = Join(<< <<" ">>, TimeADot, <<"1", "2", " ">> >>, NL)
  /\ result = content

(***************************************************************************)
(* C3: convert_content raises ValueError for every pair in which from or   *)
(* to is not a supported convention, also when the two names are equal,    *)
(* and before any parsing.                                                 *)
(***************************************************************************)
C3_UnsupportedRaises ==
  (pc # "call" /\ (from_format \notin Formats \/ to_format \notin Formats))
    => /\ pc = "raised"
       /\ exc = "ValueError"
       /\ lines = <<>> /\ out_lines = <<>>

(***************************************************************************)
(* C4: for every text and both directions, convert_content returns a text  *)
(* and never raises; what it returns is made of lines of the input only    *)
(* (trimmed, the timing lines re-punctuated) besides the lines the code    *)
(* itself writes, so at worst an empty or partial document.                *)
(***************************************************************************)
C4_NeverRaises ==
  (from_format \in Formats /\ to_format \in Formats)
    => /\ pc # "raised"
       /\ exc = "none"
       /\ (pc = "done" /\ from_format # to_format)
            => /\ result = Join(out_lines, NL)
               /\ \A p \in 1..Len(out_lines) :
                    kind[p] \in {"timing", "text"}
                      => \E j \in 1..Len(lines) :
                           Punctuated(Strip(lines[j]), ".") = Punctuated(out_lines[p], ".")

\* a marker on the last line, where no timing line is left to read: the
\* header alone comes back
C4_Witness ==
  /\ pc = "done"
  /\ SrtToVttCall
  /\ content = Join(<<Padded, <<"1", "2", " ">> >>, NL)
  /\ result = Join(<<WEBVTT, Empty>>, NL)

(***************************************************************************)
(* Numbered-block documents by the grammar: every block is a digit-only    *)
(* marker line, a timing line with comma timestamps, and text lines (non-  *)
(* blank by the block's making, and not digit-only: a digit-only line is a *)
(* marker).                                                                *)
(***************************************************************************)
IsSrtCue(b) ==
  /\ Len(b) >= 3
  /\ IsDigit(b[1])
  /\ IsTimingLine(b[2], ",")
  /\ \A k \in 3..Len(b) : ~IsDigit(b[k])

AreSrtCues(bs) == bs # <<>> /\ \A k \in 1..Len(bs) : IsSrtCue(bs[k])

WellFormedSrt(text) == AreSrtCues(Blocks(text))

\* every cue has exactly one text line
OneLineCues(text) ==
  LET bs == Blocks(text) IN AreSrtCues(bs) /\ \A k \in 1..Len(bs) : Len(bs[k]) = 3

\* no text line holds the timing token
NoArrowInText(text) ==
  LET bs == Blocks(text) IN
  \A k \in 1..Len(bs) : \A h \in 3..Len(bs[k]) : ~Contains(bs[k][h], Arrow)

\* the cues of a document without their markers: timing line and text lines
CueBodies(text) ==
  LET bs == Blocks(text) IN [k \in 1..Len(bs) |-> <<bs[k][2], SubSeq(bs[k], 3, Len(bs[k]))>>]

\* the second call of a round trip has returned
RoundTripDone == pc = "done" /\ calls = 2 /\ VttToSrtCall

\* the round trip gave a numbered-block document with the cues of the
\* original: as many, with the same timing line and text line each, in order
SameCues == OneLineCues(result) /\ CueBodies(result) = CueBodies(orig)

(***************************************************************************)
(* C2, as stated: for every numbered-block document whose cues have a      *)
(* digit marker line, a valid comma timing line and exactly one text line, *)
(* srt -> vtt -> srt gives the same number of cues, the same text line per *)
(* cue in order and the same timing lines; only the markers may differ.    *)
(***************************************************************************)
C2_RoundTrip_Original == (RoundTripDone /\ OneLineCues(orig)) => SameCues

(***************************************************************************)
(* C2, amended: the same, for the documents none of whose text lines holds *)
(* the token '-->' (the vtt scan starts a cue at every such line).         *)
(***************************************************************************)
C2_RoundTrip ==
  (RoundTripDone /\ OneLineCues(orig) /\ NoArrowInText(orig)) => SameCues

\* a two-cue document whose markers are not 1, 2 went round: the text
\* differs from the original, the cues do not
C2_Witness ==
  /\ RoundTripDone
  /\ OneLineCues(orig) /\ NoArrowInText(orig)
  /\ Len(Blocks(orig)) = 2
  /\ Blocks(orig)[1][1] = <<"4", "2">>
  /\ Blocks(orig)[2][3] = <<"a", ",", " ", "b", ".">>
  /\ result # orig
  /\ SameCues

(***************************************************************************)
(* C5: every timing line emitted in srt output has a comma as fractional   *)
(* separator and no period, and every timing line emitted in vtt output    *)
(* has a period and no comma, for every input: each emitted timing line is *)
(* a trimmed input line with every separator written in the target's       *)
(* punctuation.                                                            *)
(***************************************************************************)
TargetSeparator == IF to_format = "srt" THEN "," ELSE "."
OtherSeparator == IF to_format = "srt" THEN "." ELSE ","

RECURSIVE Value(_)
Value(s) ==
  IF s = <<>> THEN 0
  ELSE 10 * Value(SubSeq(s, 1, Len(s) - 1))
         + (CHOOSE d \in 0..9 : DigitChar(d) = s[Len(s)])

IndexLines == OfKind(out_lines, kind, "index")

C6_Indices ==
  VttToSrtCall
    => /\ Len(IndexLines) = Len(OfKind(out_lines, kind, "timing"))
       /\ \A n \in 1..Len(IndexLines) :
            IsDigit(IndexLines[n]) /\ Value(IndexLines[n]) = n
       /\ \A p \in 1..Len(out_lines) :
            kind[p] = "index" => p < Len(out_lines) /\ kind[p + 1] = "timing"

\* three cues were emitted from a text whose lines hold no marker 1, 2, 3
C6_Witness ==
  /\ pc = "done"
  /\ VttToSrtCall
  /\ Len(IndexLines) = 3
  /\ \A j \in 1..Len(lines) : ~IsDigit(Strip(lines[j]))

(***************************************************************************)
(* The cues of a text by the grammar, with their text lines.               *)
(***************************************************************************)
\* numbered-block: a text line is a non-blank line that is not digit-only
IsSrtTextLine(line) == line # Empty /\ ~IsDigit(line)

\* cue-track: a text line is a non-blank line without the timing token
IsVttTextLine(line) == line # Empty /\ ~Contains(line, Arrow)

\* the last line of the run of numbered-block text lines that starts at k
\* (k - 1 when line k is no text line)
RECURSIVE SrtTextEnd(_, _)
SrtTextEnd(ts, k) ==
  IF k <= Len(ts) /\ IsSrtTextLine(ts[k]) THEN SrtTextEnd(ts, k + 1) ELSE k - 1

RECURSIVE VttTextEnd(_, _)
VttTextEnd(ts, k) ==
  IF k <= Len(ts) /\ IsVttTextLine(ts[k]) THEN VttTextEnd(ts, k + 1) ELSE k - 1

\* a numbered-block cue starts at line j: a block that begins with a marker
\* line and a comma timing line
SrtCueAt(ts, j) ==
  /\ BlockStart(ts, j)
  /\ IsDigit(ts[j])
  /\ j + 1 <= Len(ts)
  /\ IsTimingLine(ts[j + 1], ",")

\* a cue-track cue starts at line j: a period timing line
VttCueAt(ts, j) == IsTimingLine(ts[j], ".")

\* out_lines holds, from position p, a timing line, the text lines and the
\* blank line, appended as such
EmittedCue(p, timing, text) ==
  /\ HoldsAt(out_lines, p, <<timing>> \o text \o <<Empty>>)
  /\ HoldsAt(kind, p, <<"timing">> \o TextKinds(text))

(***************************************************************************)
(* C7: a cue's text lines are carried to the target convention in their    *)
(* order and with their content, each trimmed; so a cue with three text    *)
(* lines converts, in either direction, to a cue with those three lines.   *)
(***************************************************************************)
C7_TextCarried ==
  LET ts == Trimmed(content) IN
  /\ (pc = "done" /\ SrtToVttCall)
       => \A j \in 1..Len(ts) :
            (SrtCueAt(ts, j) /\ SrtTextEnd(ts, j + 2) >= j + 2)
              => \E p \in 1..Len(out_lines) :
                   EmittedCue(p, Punctuated(ts[j + 1], "."),
                              SubSeq(ts, j + 2, SrtTextEnd(ts, j + 2)))
  /\ (pc = "done" /\ VttToSrtCall)
       => \A j \in 1..Len(ts) :
            (VttCueAt(ts, j) /\ VttTextEnd(ts, j + 1) >= j + 1)
              => \E p \in 1..Len(out_lines) :
                   EmittedCue(p, Punctuated(ts[j], ","),
                              SubSeq(ts, j + 1, VttTextEnd(ts, j + 1)))

\* a numbered-block cue with three text lines, one of them padded, has gone
\* to the cue-track convention and back: both directions carried the three
ThreeLines == <<Hi, Strip(Padded), NoteText>>

C7_Witness ==
  /\ RoundTripDone
  /\ \E j \in 1..Len(Trimmed(orig)) :
       /\ SrtCueAt(Trimmed(orig), j)
       /\ SrtTextEnd(Trimmed(orig), j + 2) = j + 4
       /\ SubSeq(Split(orig, NL), j + 2, j + 4) = <<Hi, Padded, NoteText>>
  /\ \E j \in 1..Len(Trimmed(content)) :
       /\ VttCueAt(Trimmed(content), j)
       /\ SubSeq(Trimmed(content), j + 1, VttTextEnd(Trimmed(content), j + 1)) = ThreeLines
  /\ \E p \in 1..Len(out_lines) : EmittedCue(p, TimeB, ThreeLines)

(***************************************************************************)
(* C8: srt to vtt conversion of a well-formed numbered-block document      *)
(* emits the signature line WEBVTT and a blank line once, at the start,    *)
(* then for each input cue, in input order, its timing line with period    *)
(* separators, its text lines and one blank line, and no index line; for   *)
(* the document '1 / 00:00:01,000 --> 00:00:03,000 / Hello world' the line *)
(* '00:00:01.000 --> 00:00:03.000' is followed by 'Hello world'.           *)
(***************************************************************************)
\* what the grammar's reading of a document writes in the cue-track
\* convention, and the kind of each line
CueLines(b) == <<Punctuated(b[2], ".")>> \o SubSeq(b, 3, Len(b)) \o <<Empty>>
CueKinds(b) == <<"timing">> \o [k \in 1..(Len(b) - 2) |-> "text"] \o <<"blank">>

ExpectedVtt(text) ==
  LET bs == Blocks(text) IN
  <<WEBVTT, Empty>> \o Flatten([k \in 1..Len(bs) |-> CueLines(bs[k])])

ExpectedVttKinds(text) ==
  LET bs == Blocks(text) IN
  <<"sig", "blank">> \o Flatten([k \in 1..Len(bs) |-> CueKinds(bs[k])])

ExampleSrt == Join(<< <<"1">>, TimeA, HelloWorld, Empty >>, NL)

C8_SrtToVtt ==
  (pc = "done" /\ SrtToVttCall)
    => /\ WellFormedSrt(content)
            => /\ out_lines = ExpectedVtt(content)
               /\ kind = ExpectedVttKinds(content)
               /\ result = Join(out_lines, NL)
       /\ content = ExampleSrt
            => \E p \in 1..(Len(Split(result, NL)) - 1) :
                 /\ Split(result, NL)[p] = TimeADot
                 /\ Split(result, NL)[p + 1] = HelloWorld

\* a document of two cues, the second with three text lines, was converted
C8_Witness ==
  /\ pc = "done" /\ SrtToVttCall
  /\ WellFormedSrt(content)
  /\ Len(Blocks(content)) = 2
  /\ Len(Blocks(content)[2]) = 5
  /\ out_lines = ExpectedVtt(content)
  /\ Len(OfKind(out_lines, kind, "timing")) = 2

\* the example document was converted
C8_ExampleConverted ==
  /\ pc = "done" /\ SrtToVttCall
  /\ content = ExampleSrt
  /\ result = Join(<<WEBVTT, Empty, TimeADot, HelloWorld, Empty>>, NL)

(***************************************************************************)
(* C9: in numbered-block parsing a block that does not begin with a        *)
(* digit-only marker line is still a cue: its timing line is taken at the  *)
(* current position, and its timing line and text lines are in the output. *)
(***************************************************************************)
C9_UnmarkedBlockIsCue ==
  LET ts == Trimmed(content) IN
  (pc = "done" /\ SrtToVttCall)
    => \A j \in 1..Len(ts) :
         (BlockStart(ts, j) /\ IsTimingLine(ts[j], ","))
           => \E p \in 1..Len(out_lines) :
                EmittedCue(p, Punctuated(ts[j], "."),
                           SubSeq(ts, j + 1, SrtTextEnd(ts, j + 1)))

(***************************************************************************)
(* C10: in numbered-block parsing a digit-only line always starts a new    *)
(* cue, wherever the scan meets it: no digit-only line is emitted as a     *)
(* timing line or as a text line.                                          *)
(***************************************************************************)
C10_DigitLineStartsCue ==
  SrtToVttCall
    => \A p \in 1..Len(out_lines) :
         kind[p] \in {"timing", "text"} => ~IsDigit(out_lines[p])

(***************************************************************************)
(* C11.  Cue-track parsing: which lines begin a cue.                       *)
(***************************************************************************)
HasArrow(line) == Contains(line, Arrow)

\* a line the cue-track grammar skips as signature or comment
IsHeaderOrNote(line) == StartsWith(line, WEBVTT) \/ StartsWith(line, NOTE)

ArrowLines(text) == SelectSeq(Trimmed(text), HasArrow)

CueStartLines(text) ==
  SelectSeq(Trimmed(text), LAMBDA l : HasArrow(l) /\ ~IsHeaderOrNote(l))

TimingLines == OfKind(out_lines, kind, "timing")

\* the emitted timing lines are the given input lines, re-punctuated, in
\* order, each right after an index line of its own
CuesBegunBy(starts) ==
  /\ TimingLines = [k \in 1..Len(starts) |-> Punctuated(starts[k], ",")]
  /\ Len(IndexLines) = Len(starts)
  /\ \A p \in 1..Len(kind) :
       kind[p] = "timing" => (p > 1 /\ kind[p - 1] = "index")

\* C11 (as stated): after a vtt to srt conversion, every input line
\* containing '-->' has begun a cue, whatever else the line contains: the
\* output has one index line followed by that line as timing line.
C11_EveryArrowLine ==
  (Returned /\ VttToSrtCall) => CuesBegunBy(ArrowLines(content))

\* C11 (amended): after a vtt to srt conversion, every input line containing
\* '-->' that does not start with WEBVTT or NOTE has begun a cue, wherever
\* it occurs: the output has one index line followed by that line as timing
\* line, and no other cue.
C11_ArrowLineBeginsCue ==
  (Returned /\ VttToSrtCall) => CuesBegunBy(CueStartLines(content))

\* a timing line right after another timing line, after a line of other text
C11_Witness ==
  /\ Returned /\ VttToSrtCall /\ calls = 1
  /\ content = Join(<<Padded, TimeADot, TimeA>>, NL)
  /\ out_lines = << <<"1">>, TimeA, Empty, <<"2">>, TimeA, Empty >>

(***************************************************************************)
(* C12.  No empty cue.                                                     *)
(***************************************************************************)
Converted == Returned /\ (SrtToVttCall \/ VttToSrtCall)

\* C12: in the output of either conversion, every emitted cue carries at
\* least one text line between its timing line and its blank separator.
C12_NoEmptyCue ==
  Converted =>
    \A p \in 1..Len(kind) :
      kind[p] = "timing" => (p < Len(kind) /\ kind[p + 1] = "text")

(***************************************************************************)
(* C13.  One blank line between cues.                                      *)
(***************************************************************************)
\* C13: in the output of either conversion, each cue's lines are followed
\* by a single blank line and no two consecutive output lines are blank.
C13_SingleBlankSeparator ==
  Converted =>
    /\ \A p \in 1..Len(kind) :
         (kind[p] \in {"timing", "text"} /\ (p = Len(kind) \/ kind[p + 1] \notin {"text"}))
           => (p < Len(kind) /\ kind[p + 1] = "blank")
    /\ \A p \in 1..(Len(out_lines) - 1) :
         ~(out_lines[p] = Empty /\ out_lines[p + 1] = Empty)

(***************************************************************************)
(* C14.  What a conversion does to a timing line.                          *)
(***************************************************************************)
\* out is src with every character a replaced by b and nothing else changed
Substituted(src, out, a, b) ==
  /\ Len(out) = Len(src)
  /\ \A q \in 1..Len(src) : out[q] = IF src[q] = a THEN b ELSE src[q]

SourceSeparator == IF from_format = "srt" THEN "," ELSE "."

\* the input line the scan has just passed
LastScanned == Strip(At(lines, i' - 1))

\* C14: whenever a step of either conversion emits a timing line, the
\* emitted line is the (trimmed) input line just scanned with the source
\* convention's separator character replaced by the target's and every other
\* character, whether well-formed or not, left as it is.
C14_TimingFrame ==
  [][\A p \in (Len(out_lines) + 1)..Len(out_lines') :
       kind'[p] = "timing" =>
         Substituted(LastScanned, out_lines'[p], SourceSeparator, TargetSeparator)]_vars

\* a line that is no timestamp at all, emitted in timing position
C14_Witness ==
  /\ Returned /\ SrtToVttCall
  /\ content = Join(<< <<"1", "2", " ">>, Padded, TimeA >>, NL)
  /\ out_lines = <<WEBVTT, Empty, <<"a", ".", " ", "b", ".">>, TimeA, Empty>>
  /\ kind = <<"sig", "blank", "timing", "text", "blank">>

(***************************************************************************)
(* C15.  The empty string.                                                 *)
(***************************************************************************)
\* C15: a conversion of the empty string never raises; srt to vtt returns
\* the signature line and a blank line and no cue, vtt to srt returns the
\* empty string.
C15_EmptyString ==
  (content = <<>> /\ pc # "call" /\ (SrtToVttCall \/ VttToSrtCall)) =>
    /\ pc # "raised"
    /\ exc = "none"
    /\ Returned =>
         IF SrtToVttCall
           THEN /\ result = Append(WEBVTT, NL)
                /\ Split(result, NL) = <<WEBVTT, Empty>>
                /\ kind = <<"sig", "blank">>
           ELSE /\ result = <<>>
                /\ kind = <<>>

C15_Witness ==
  /\ Returned /\ SrtToVttCall
  /\ content = <<>>
  /\ lines = <<Empty>>
  /\ result = Append(WEBVTT, NL)

(***************************************************************************)
(* validate_srt and validate_vtt                                           *)
(*   valid_srt, valid_vtt   what each validator returned for content:      *)
(*                          <<>> before the call, <<b>> after it           *)
(***************************************************************************)
MaxPad == 3

Comma == <<",">>
Period == <<".">>

\* any('-->' in line and ',' in line) over content.strip().split('\n')
ValidateSrt(text) ==
  LET ls == Split(Strip(text), NL)
  IN  \E k \in 1..Len(ls) : Contains(ls[k], Arrow) /\ Contains(ls[k], Comma)

\* (faulty variant: the signature is not looked for)
ValidateVttMut(text) ==
  LET ls == Split(Strip(text), NL)
  IN  \E k \in 1..Len(ls) : Contains(ls[k], Arrow) /\ Contains(ls[k], Period)
\* has_webvtt and has_timing, over content.strip().split('\n')
ValidateVtt(text) ==
  LET ls == Split(Strip(text), NL)
      first == SubSeq(ls, 1, IF Len(ls) < 3 THEN Len(ls) ELSE 3)
  IN  /\ \E k \in 1..Len(first) : StartsWith(Strip(first[k]), WEBVTT)
      /\ \E k \in 1..Len(ls) : Contains(ls[k], Arrow) /\ Contains(ls[k], Period)

\* texts whose signature line comes after up to MaxPad other lines
PaddedDocs ==
  { Join(pad \o <<sig, t>>, NL) :
      pad \in UNION { [1..n -> {Empty, Hi}] : n \in 0..MaxPad },
      sig \in { WEBVTT, <<" ">> \o WEBVTT },
      t \in { TimeA, TimeADot } }

ValidatorInputs == Inputs \cup PaddedDocs

\* the converter is not running
NoCall ==
  /\ from_format = "srt"
  /\ to_format = "srt"
  /\ pc = "idle"
  /\ lines = <<>>
  /\ i = 0
  /\ out_lines = <<>>
  /\ kind = <<>>
  /\ subtitle_text = <<>>
  /\ subtitle_number = 0
  /\ result = <<>>
  /\ exc = "none"
  /\ orig = content
  /\ calls = 0

ValidatorInit ==
  /\ content \in ValidatorInputs
  /\ NoCall
  /\ NoVerdicts
  /\ NoManager
  /\ NoService
  /\ ApiIdle
  /\ NoWorkers

\* validate_srt(content)
CallValidateSrt ==
  /\ valid_srt = <<>>
  /\ valid_srt' = <<ValidateSrt(content)>>
  /\ UNCHANGED <<call, valid_vtt, api, workers, manager, service>>

\* validate_vtt(content)
CallValidateVtt ==
  /\ valid_vtt = <<>>
  /\ valid_vtt' = <<ValidateVtt(content)>>
  /\ UNCHANGED <<call, valid_srt, api, workers, manager, service>>

ValidatorNext == CallValidateSrt \/ CallValidateVtt

ValidatorSpec == ValidatorInit /\ [][ValidatorNext]_vars

(***************************************************************************)
(* C16.  The validators.                                                   *)
(***************************************************************************)
\* some line carries the token and the separator character
HasTimingWith(ts, sep) ==
  \E k \in 1..Len(ts) : HasArrow(ts[k]) /\ Contains(ts[k], <<sep>>)

\* one of the first three of the lines starts with the signature
SignatureInFirstThree(ts) ==
  \E k \in 1..Len(ts) : k <= 3 /\ StartsWith(ts[k], WEBVTT)

\* the lines from the first non-blank one on
RECURSIVE FromFirstText(_)
FromFirstText(ts) ==
  IF ts = <<>> \/ Head(ts) # Empty THEN ts ELSE FromFirstText(Tail(ts))

\* C16 (as stated): validate_srt returns true exactly when some line of the
\* text has both '-->' and a comma; validate_vtt returns true exactly when
\* one of the first three lines of the text starts with WEBVTT and some line
\* has both '-->' and a period.
C16_Validators_Original ==
  /\ valid_srt # <<>> => (valid_srt[1] <=> HasTimingWith(Trimmed(content), ","))
  /\ valid_vtt # <<>> =>
       (valid_vtt[1] <=> (/\ SignatureInFirstThree(Trimmed(content))
                          /\ HasTimingWith(Trimmed(content), ".")))

\* C16 (amended): as above, the first three lines being counted from the
\* first non-blank line of the text.
C16_Validators ==
  /\ valid_srt # <<>> => (valid_srt[1] <=> HasTimingWith(Trimmed(content), ","))
  /\ valid_vtt # <<>> =>
       (valid_vtt[1] <=> (/\ SignatureInFirstThree(FromFirstText(Trimmed(content)))
                          /\ HasTimingWith(Trimmed(content), ".")))

\* both validators accept the same text
C16_Witness ==
  /\ valid_srt = <<TRUE>>
  /\ valid_vtt = <<TRUE>>
  /\ content = Join(<<WEBVTT, TimeA, TimeADot>>, NL)

(***************************************************************************)
(* convert_content as a function of its arguments, for the callers that    *)
(* run it to the end within one step of their own.                         *)
(***************************************************************************)
\* the index at which the text loop of _srt_to_vtt stops
RECURSIVE SrtTextStop(_, _)
SrtTextStop(ls, k) == IF SrtTextContinues(ls, k) THEN SrtTextStop(ls, k + 1) ELSE k

\* the loop of _srt_to_vtt from index k on, vtt_lines being out
RECURSIVE SrtScan(_, _, _)
SrtScan(ls, k, out) ==
  IF ~(k < Len(ls)) THEN out
  ELSE IF /\ Strip(At(ls, k)) # Empty
          /\ IsDigit(Strip(At(ls, k)))
          /\ SrtHasTiming(ls, k + 1)
         THEN LET stop == SrtTextStop(ls, k + 2)
                  text == [n \in 1..(stop - (k + 2)) |-> Strip(At(ls, k + 1 + n))]
              IN  SrtScan(ls, stop,
                          out \o <<VttTiming(Strip(At(ls, k + 1)))>> \o text \o <<Empty>>)
         ELSE SrtScan(ls, k + 1, out)

\* _srt_to_vtt(srt_content)
SrtToVtt(text) == Join(SrtScan(Split(Strip(text), NL), 0, VttHeader), NL)

\* the index at which the text loop of _vtt_to_srt stops
RECURSIVE VttTextStop(_, _)
VttTextStop(ls, k) == IF VttTextContinues(ls, k) THEN VttTextStop(ls, k + 1) ELSE k

\* the loop of _vtt_to_srt from index k on, subtitle_number being n
RECURSIVE VttScan(_, _, _, _)
VttScan(ls, k, n, out) ==
  IF ~(k < Len(ls)) THEN out
  ELSE IF VttSkipped(Strip(At(ls, k))) THEN VttScan(ls, k + 1, n, out)
  ELSE IF IsTiming(Strip(At(ls, k)))
         THEN LET stop == VttTextStop(ls, k + 1)
                  text == [m \in 1..(stop - (k + 1)) |-> Strip(At(ls, k + m))]
              IN  VttScan(ls, stop, NextNumber(n),
                          out \o <<Str(n), SrtTiming(Strip(At(ls, k)))>> \o text \o <<Empty>>)
         ELSE VttScan(ls, k + 1, n, out)

\* _vtt_to_srt(vtt_content)
VttToSrt(text) == Join(VttScan(Split(Strip(text), NL), 0, 1, SrtHeader), NL)

\* convert_content(content, from_format, to_format): what it returns, or
\* the exception it raises
ConvertContent(text, f, t) ==
  IF SameFormat(f, t) THEN [exc |-> "none", result |-> text]
  ELSE IF f = "srt" /\ t = "vtt" THEN [exc |-> "none", result |-> SrtToVtt(text)]
  ELSE IF f = "vtt" /\ t = "srt" THEN [exc |-> "none", result |-> VttToSrt(text)]
  ELSE [exc |-> "ValueError", result |-> <<>>]

\* the function and the statement-by-statement actions agree
ConvertContentAgrees ==
  pc \in {"done", "raised"} =>
    ConvertContent(content, from_format, to_format) = [exc |-> exc, result |-> result]

(***************************************************************************)
(* app.py: convert_format, the handler of POST /api/v1/convert.            *)
(*   request    the JSON payload: whether there is one, and its fields     *)
(*   response   the status returned, with the error or the content         *)
(*   calls      the calls of convert_content the handler has made          *)
(***************************************************************************)
\* JSON values that are no strings, and a key that is absent
Null == <<"null">>
Number == <<"number">>
Missing == <<"missing">>

IsStr(v) == v \notin {Null, Number, Missing}

UpperChars == <<"A", "R", "S", "T", "V">>
LowerChars == <<"a", "r", "s", "t", "v">>

\* str.lower()
Lower(s) ==
  [p \in 1..Len(s) |->
     IF \E c \in 1..Len(UpperChars) : UpperChars[c] = s[p]
       THEN LowerChars[CHOOSE c \in 1..Len(UpperChars) : UpperChars[c] = s[p]]
       ELSE s[p]]

Srt == <<"s", "r", "t">>
Vtt == <<"v", "t", "t">>

\* the format names as the converter's callers write them
Name(f) == IF f = Srt THEN "srt" ELSE IF f = Vtt THEN "vtt" ELSE "other"

\* data.get(key, '')
GetOr(v, default) == IF v = Missing THEN default ELSE v

\* not content
Falsy(v) == v \in {Missing, Null, Empty}

FormatValues ==
  { Missing, Null, Empty, Srt, Vtt, <<"S", "R", "T">>, <<"V", "t", "t">>, <<"a", "s", "s">> }

ContentValues == { Missing, Null, Number, Empty, ExampleSrt, Join(<<WEBVTT, Empty, TimeADot, Hi>>, NL) }

ConvertRequests ==
  { [data |-> FALSE, content |-> Missing, from_format |-> Missing, to_format |-> Missing] }
  \cup [data : {TRUE}, content : ContentValues, from_format : FormatValues, to_format : FormatValues]

NoResponse == [status |-> 0, error |-> "", content |-> <<>>]

Error(status, message) == [status |-> status, error |-> message, content |-> <<>>]
Ok(text) == [status |-> 200, error |-> "", content |-> text]

\* not (from_format not in ['srt', 'vtt'] or to_format not in ['srt', 'vtt'])
FormatsAccepted(f, t) == f \in {Srt, Vtt} /\ t \in {Srt, Vtt}

\* the body of convert_format's try block: the response, and whether
\* convert_content was called
ConvertFormatBody(req) ==
  LET f == Lower(GetOr(req.from_format, Empty))
      t == Lower(GetOr(req.to_format, Empty))
  IN  IF ~req.data THEN [response |-> Error(400, "JSON payload required"), called |-> FALSE]
      ELSE IF ~IsStr(GetOr(req.from_format, Empty)) \/ ~IsStr(GetOr(req.to_format, Empty))
        THEN [response |-> Error(500, "Conversion failed: AttributeError"), called |-> FALSE]
      ELSE IF Falsy(req.content)
        THEN [response |-> Error(400, "Content is required"), called |-> FALSE]
      ELSE IF ~FormatsAccepted(f, t)
        THEN [response |-> Error(400, "Formats must be either srt or vtt"), called |-> FALSE]
      ELSE IF f = t THEN [response |-> Ok(req.content), called |-> FALSE]
      ELSE IF ~IsStr(req.content)
        THEN [response |-> Error(500, "Conversion failed: AttributeError"), called |-> TRUE]
      ELSE LET r == ConvertContent(req.content, Name(f), Name(t))
           IN  IF r.exc # "none"
                 THEN [response |-> Error(500, "Conversion failed: " \o r.exc), called |-> TRUE]
                 ELSE [response |-> Ok(r.result), called |-> TRUE]

ConvertApiInit ==
  /\ request \in ConvertRequests
  /\ response = NoResponse
  /\ cache = <<>>
  /\ now = 0
  /\ retrieved = <<>>
  /\ steps = 0
  /\ content = <<>>
  /\ NoCall
  /\ NoVerdicts
  /\ NoManager
  /\ NoService
  /\ NoWorkers

\* POST /api/v1/convert
ConvertFormat ==
  /\ response = NoResponse
  /\ response' = ConvertFormatBody(request).response
  /\ calls' = IF ConvertFormatBody(request).called THEN calls + 1 ELSE calls
  /\ UNCHANGED <<content, from_format, to_format, pc, lines, i, out_lines, kind,
                 subtitle_text, subtitle_number, result, exc, orig>>
  /\ UNCHANGED <<request, cache, now, retrieved, steps, verdicts, workers, manager, service>>

ConvertApiNext == ConvertFormat

ConvertApiSpec == ConvertApiInit /\ [][ConvertApiNext]_vars

(***************************************************************************)
(* C17.  The convert handler and format names outside {srt, vtt}.          *)
(***************************************************************************)
\* a format field that can be lower-cased (a string, or absent and then '')
\* and is then outside {srt, vtt}
IsOutside(v) ==
  IsStr(GetOr(v, Empty)) /\ Lower(GetOr(v, Empty)) \notin {Srt, Vtt}

OutsideFormats(req) == IsOutside(req.from_format) \/ IsOutside(req.to_format)

Handled == response # NoResponse

\* C17: every request whose from_format or to_format is, after lower-casing,
\* outside {srt, vtt} is answered with status 400, and convert_content is
\* not called for it.
C17_RejectsWith400 ==
  (Handled /\ OutsideFormats(request)) => (response.status = 400 /\ calls = 0)

(***************************************************************************)
(* cache_manager.py: CacheManager.                                         *)
(*   cache   for each key that is present, its value and expiry time       *)
(*           (self.cache and self.ttl, always written together)            *)
(*   now     time.time()                                                   *)
(***************************************************************************)
\* the key strings content:<id>:<format> and download:<id>:<format>; file
\* ids are integers, so distinct triples give distinct strings (and, md5
\* collisions aside, distinct hashed keys)
\* f"content:{file_id}:{preferred_format}", _hash_key
CacheKey(prefix, id, fmt) == <<prefix, id, fmt>>

NoEntries == [k \in {} |-> [value |-> <<>>, expiry |-> 0]]

Remove(c, ks) == [k \in DOMAIN c \ ks |-> c[k]]
Put(c, k, e) == [x \in DOMAIN c \cup {k} |-> IF x = k THEN e ELSE c[x]]

\* _is_expired
IsExpired(c, k, t) == t > c[k].expiry

\* (faulty variant: every lookup misses)
CacheGetMut(c, k, t) == <<>>
\* get: the value, or nothing (None) when the key is absent or expired
CacheGet(c, k, t) ==
  IF k \notin DOMAIN c \/ IsExpired(c, k, t) THEN <<>> ELSE <<c[k].value>>

\* get: an expired entry is popped
CacheAfterGet(c, k, t) ==
  IF k \in DOMAIN c /\ IsExpired(c, k, t) THEN Remove(c, {k}) ELSE c

\* _cleanup_expired
CleanupExpired(c, t) == Remove(c, { k \in DOMAIN c : t > c[k].expiry })

\* set
CacheSet(c, k, v, ttl, t) ==
  Put(IF Cardinality(DOMAIN c) % 100 = 0 THEN CleanupExpired(c, t) ELSE c,
      k, [value |-> v, expiry |-> t + ttl])

(***************************************************************************)
(* app.py: get_subtitle_content and get_download_link.                     *)
(*   request    the request handled last: endpoint, file id, format, the   *)
(*              time, and whether the subtitle service was asked           *)
(*   response   its status and content                                     *)
(*   retrieved  for each file id, the raw texts the service has returned   *)
(*   steps      requests handled and lapses of time so far                 *)
(***************************************************************************)
MaxSteps == 3

ContentTtl == 3600
ResponseTtl == 1800

FileIds == {1, 2}

\* the format query parameter
FormatParams == { Srt, <<"V", "T", "T">>, <<"a", "s", "s">> }

RawA == ExampleSrt
RawB == Join(<< <<"1">>, TimeB, Hi >>, NL)

\* subtitle_service.get_download_link(id): None, or a dict with the content
Replies ==
  { [found |-> FALSE, content |-> Empty], [found |-> TRUE, content |-> Empty],
    [found |-> TRUE, content |-> RawA], [found |-> TRUE, content |-> RawB] }

\* how much time passes between two requests
Lapses == { ResponseTtl, ContentTtl + 1 }

\* (faulty variant: the text is served as retrieved)
ForFormatMut(fmt, text) == text
\* if preferred_format == 'vtt': convert_content(content, 'srt', 'vtt')
ForFormat(fmt, text) ==
  IF fmt = Vtt THEN ConvertContent(text, "srt", "vtt").result ELSE text

Noted(id, reply) ==
  IF reply.found /\ reply.content # Empty
    THEN [retrieved EXCEPT ![id] = @ \cup {reply.content}]
    ELSE retrieved

DownloadInit ==
  /\ request = [endpoint |-> "none", file_id |-> 0, format |-> Empty, time |-> 0, fetched |-> FALSE]
  /\ response = NoResponse
  /\ cache = NoEntries
  /\ now = 0
  /\ retrieved = [id \in FileIds |-> {}]
  /\ steps = 0
  /\ content = <<>>
  /\ NoCall
  /\ NoVerdicts
  /\ NoManager
  /\ NoService
  /\ NoWorkers

\* GET /api/v1/content/<file_id>?format=<fmt>
GetSubtitleContent(id, fmt, reply) ==
  LET preferred == Lower(fmt)
      key == CacheKey("content", id, preferred)
      cached == CacheGet(cache, key, now)
      c1 == CacheAfterGet(cache, key, now)
      miss == cached = <<>> \/ cached[1] = Empty
      text == ForFormat(preferred, reply.content)
  IN  /\ steps < MaxSteps
      /\ steps' = steps + 1
      /\ request' = [endpoint |-> "content", file_id |-> id, format |-> fmt,
                     time |-> now, fetched |-> miss]
      /\ IF ~miss
           THEN /\ response' = Ok(cached[1])
                /\ cache' = c1
                /\ UNCHANGED retrieved
           ELSE /\ retrieved' = Noted(id, reply)
                /\ IF ~reply.found \/ reply.content = Empty
                     THEN /\ response' = Error(404, "Subtitle not found")
                          /\ cache' = c1
                     ELSE /\ response' = Ok(text)
                          /\ cache' = CacheSet(c1, key, text, ContentTtl, now)
      /\ UNCHANGED <<call, now, verdicts, workers, manager, service>>

\* GET /api/v1/download/<file_id>?format=<fmt>
GetDownloadLink(id, fmt, reply) ==
  LET preferred == Lower(fmt)
      key == CacheKey("download", id, preferred)
      cached == CacheGet(cache, key, now)
      c1 == CacheAfterGet(cache, key, now)
      text == ForFormat(preferred, reply.content)
      data == [content |-> text, format |-> preferred, file_id |-> id]
      c2 == CacheSet(c1, CacheKey("content", id, Srt), reply.content, ContentTtl, now)
      c3 == IF preferred = Vtt
              THEN CacheSet(c2, CacheKey("content", id, Vtt), text, ContentTtl, now)
              ELSE c2
  IN  /\ steps < MaxSteps
      /\ steps' = steps + 1
      /\ IF preferred \notin {Srt, Vtt}
           THEN /\ response' = Error(400, "Format must be either srt or vtt")
                /\ request' = [endpoint |-> "download", file_id |-> id, format |-> fmt,
                               time |-> now, fetched |-> FALSE]
                /\ UNCHANGED <<cache, retrieved>>
           ELSE /\ request' = [endpoint |-> "download", file_id |-> id, format |-> fmt,
                               time |-> now, fetched |-> cached = <<>>]
                /\ IF cached # <<>>
                     THEN /\ response' = Ok(cached[1])
                          /\ cache' = c1
                          /\ UNCHANGED retrieved
                     ELSE /\ retrieved' = Noted(id, reply)
                          /\ IF ~reply.found
                               THEN /\ response' = Error(500, "Failed to get subtitle content")
                                    /\ cache' = c1
                               ELSE IF reply.content = Empty
                                 THEN /\ response' = Error(404, "No subtitle content available")
                                      /\ cache' = c1
                                 ELSE /\ response' = Ok(data)
                                      /\ cache' = CacheSet(c3, key, data, ResponseTtl, now)
      /\ UNCHANGED <<call, now, verdicts, workers, manager, service>>

\* time passes
Elapse(d) ==
  /\ steps < MaxSteps
  /\ steps' = steps + 1
  /\ now' = now + d
  /\ UNCHANGED <<call, request, response, cache, retrieved, verdicts, workers, manager, service>>

DownloadNext ==
  \/ \E id \in FileIds, fmt \in FormatParams, reply \in Replies :
       GetSubtitleContent(id, fmt, reply)
  \/ \E id \in FileIds, fmt \in FormatParams, reply \in Replies :
       GetDownloadLink(id, fmt, reply)
  \/ \E d \in Lapses : Elapse(d)

DownloadSpec == DownloadInit /\ [][DownloadNext]_vars

(***************************************************************************)
(* C18.  Download fulfilment.                                              *)
(***************************************************************************)
\* the srt to vtt conversion of a numbered-block text, by the grammar of the
\* specification (see C8): what (id, vtt) stands for
Derived(id, fmt) ==
  IF fmt = Vtt THEN { Join(ExpectedVtt(r), NL) : r \in retrieved[id] }
               ELSE retrieved[id]

\* C18: whatever is cached or returned with status 200 for (id, vtt) is the
\* srt to vtt conversion of a raw text retrieved for id, and for (id, srt)
\* it is such a raw text itself; and a content request that missed the
\* cache has stored what it returns under (id, convention), to expire
\* ContentTtl seconds after the request.
C18_DownloadFulfilment ==
  /\ \A id \in FileIds, fmt \in {Srt, Vtt} :
       /\ CacheKey("content", id, fmt) \in DOMAIN cache =>
            cache[CacheKey("content", id, fmt)].value \in Derived(id, fmt)
       /\ CacheKey("download", id, fmt) \in DOMAIN cache =>
            /\ cache[CacheKey("download", id, fmt)].value.content \in Derived(id, fmt)
            /\ cache[CacheKey("download", id, fmt)].value.format = fmt
            /\ cache[CacheKey("download", id, fmt)].value.file_id = id
  /\ (response.status = 200 /\ Lower(request.format) \in {Srt, Vtt}) =>
       /\ request.endpoint = "content" =>
            response.content \in Derived(request.file_id, Lower(request.format))
       /\ request.endpoint = "download" =>
            response.content.content \in Derived(request.file_id, Lower(request.format))
  /\ (request.endpoint = "content" /\ response.status = 200 /\ request.fetched) =>
       LET key == CacheKey("content", request.file_id, Lower(request.format))
       IN  /\ key \in DOMAIN cache
           /\ cache[key] = [value |-> response.content,
                            expiry |-> request.time + ContentTtl]

\* the text of file 1 is served as vtt from the cache after the service has
\* come to return another text for it
C18_Witness ==
  /\ request.endpoint = "content" /\ request.file_id = 1
  /\ Lower(request.format) = Vtt
  /\ ~request.fetched
  /\ response = Ok(Join(ExpectedVtt(RawA), NL))
  /\ retrieved[1] = {RawA, RawB}

(***************************************************************************)
(* Concurrent calls of convert_content on the one FormatConverter that     *)
(* app.py creates.  One call runs at a time; between any two statements    *)
(* the scheduler may suspend it and resume another.                        *)
(*   running     the worker whose call the call variables hold, or 0       *)
(*   suspended   for each worker, the arguments and locals of its call as  *)
(*               they stood when it was last suspended                     *)
(***************************************************************************)
NumWorkers == 2

Workers == 1..NumWorkers

Jobs ==
  { [content |-> Join(<< <<"x">>, Empty, <<"1">>, TimeA, Hi >>, NL),
     from_format |-> "srt", to_format |-> "vtt"],
    [content |-> Join(<< <<"1">>, TimeB, Padded >>, NL),
     from_format |-> "srt", to_format |-> "vtt"],
    [content |-> Join(<< WEBVTT, Empty, <<"x">>, TimeADot, Hi >>, NL),
     from_format |-> "vtt", to_format |-> "srt"],
    [content |-> ExampleSrt, from_format |-> "srt", to_format |-> "srt"],
    [content |-> ExampleSrt, from_format |-> "srt", to_format |-> "ass"] }

\* the arguments and locals of the call that is running
Frame ==
  [content |-> content, from_format |-> from_format, to_format |-> to_format,
   pc |-> pc, lines |-> lines, i |-> i, out_lines |-> out_lines, kind |-> kind,
   subtitle_text |-> subtitle_text, subtitle_number |-> subtitle_number,
   result |-> result, exc |-> exc]

\* the call of a job before its first statement
Entered(job) ==
  [content |-> job.content, from_format |-> job.from_format,
   to_format |-> job.to_format, pc |-> "call", lines |-> <<>>, i |-> 0,
   out_lines |-> <<>>, kind |-> <<>>, subtitle_text |-> <<>>,
   subtitle_number |-> 0, result |-> <<>>, exc |-> "none"]

\* (faulty variant: the name is an attribute of the shared instance, so a
\* resumed call finds what the call before it left there)
LocalMut(own, last) == last
\* a local name of a resumed call holds what that call assigned to it
Local(own, last) == own

ConcurrentInit ==
  /\ suspended \in [Workers -> { Entered(job) : job \in Jobs }]
  /\ running = 0
  /\ content = <<>>
  /\ from_format = "srt"
  /\ to_format = "srt"
  /\ pc = "idle"
  /\ lines = <<>>
  /\ i = 0
  /\ out_lines = <<>>
  /\ kind = <<>>
  /\ subtitle_text = <<>>
  /\ subtitle_number = 0
  /\ result = <<>>
  /\ exc = "none"
  /\ orig = <<>>
  /\ calls = 0
  /\ NoVerdicts
  /\ NoManager
  /\ NoService
  /\ ApiIdle

\* the scheduler suspends the running call, if any, and starts or resumes
\* the call of worker w
Switch(w) ==
  /\ w # running
  /\ suspended[w].pc \notin {"done", "raised"}
  /\ suspended' = IF running = 0 THEN suspended
                                 ELSE [suspended EXCEPT ![running] = Frame]
  /\ running' = w
  /\ content' = suspended[w].content
  /\ from_format' = suspended[w].from_format
  /\ to_format' = suspended[w].to_format
  /\ pc' = suspended[w].pc
  /\ result' = suspended[w].result
  /\ exc' = suspended[w].exc
  /\ lines' = Local(suspended[w].lines, lines)
  /\ i' = Local(suspended[w].i, i)
  /\ out_lines' = Local(suspended[w].out_lines, out_lines)
  /\ kind' = Local(suspended[w].kind, kind)
  /\ subtitle_text' = Local(suspended[w].subtitle_text, subtitle_text)
  /\ subtitle_number' = Local(suspended[w].subtitle_number, subtitle_number)
  /\ UNCHANGED <<orig, calls, verdicts, api, manager, service>>

ConcurrentNext ==
  \/ \E w \in Workers : Switch(w)
  \/ ReturnSame
  \/ CallSrtToVtt
  \/ CallVttToSrt
  \/ RaiseUnsupported
  \/ SrtSkipBlank
  \/ SrtMarker
  \/ SrtSkipOther
  \/ SrtCollect
  \/ SrtEndCue
  \/ SrtReturn
  \/ VttSkipHeader
  \/ VttCue
  \/ VttSkipOther
  \/ VttCollect
  \/ VttEndCue
  \/ VttReturn

ConcurrentSpec == ConcurrentInit /\ [][ConcurrentNext]_vars

(***************************************************************************)
(* C19.  Concurrent calls do not interfere.                                *)
(***************************************************************************)
\* the call of worker w as it stands
CallOf(w) == IF w = running THEN Frame ELSE suspended[w]

\* C19: however the calls of the workers interleave, each call that has
\* returned or raised has the outcome convert_content has for its arguments
\* when it runs alone.
C19_NoInterference ==
  \A w \in Workers :
    CallOf(w).pc \in {"done", "raised"} =>
      [exc |-> CallOf(w).exc, result |-> CallOf(w).result]
        = ConvertContent(CallOf(w).content, CallOf(w).from_format, CallOf(w).to_format)

\* worker 1 was suspended inside its text loop; worker 2 converted another
\* text in between and has returned; worker 1 has been resumed and has
\* returned too
C19_Witness ==
  /\ running = 1 /\ pc = "done"
  /\ content = Join(<< <<"x">>, Empty, <<"1">>, TimeA, Hi >>, NL)
  /\ result = Join(<<WEBVTT, Empty, TimeADot, Hi, Empty>>, NL)
  /\ suspended[1].pc = "srt_text"
  /\ suspended[2].pc = "done"
  /\ suspended[2].content = Join(<< <<"1">>, TimeB, Padded >>, NL)
  /\ suspended[2].result = Join(<<WEBVTT, Empty, TimeBDot, Strip(Padded), Empty>>, NL)

(***************************************************************************)
(* C20.  Termination in one pass.                                          *)
(***************************************************************************)
InScan == pc \in {"srt", "vtt"}
InText == pc \in {"srt_text", "vtt_text"}

\* a bound on the steps the running conversion has left
Rank ==
  IF InScan THEN 2 * (Len(lines) - i) + 1
  ELSE IF InText THEN 2 * (Len(lines) - i) + 2
  ELSE 0

\* C20: every step of either conversion leaves the split input as it is,
\* never moves the line index back or past the end, and strictly lowers a
\* bound on the steps left that is linear in the number of lines; every
\* iteration of the scanning loop and of the text loop moves the index
\* forward (the step that closes a cue is the end of an iteration that has),
\* so no line is read by two iterations.
C20_LinearPass ==
  [][((InScan \/ InText) /\ calls' = calls) =>
       /\ lines' = lines
       /\ i <= i' /\ i' <= Len(lines)
       /\ Rank' < Rank /\ Rank' >= 0
       /\ (InScan /\ pc' # "done") => i < i'
       /\ (InText /\ pc' = pc) => i < i'
       /\ (InText /\ pc' # pc) => i' = i]_vars

\* the scan has gone through a document of seven lines and two cues
C20_Witness ==
  /\ Returned /\ SrtToVttCall
  /\ Len(lines) = 7
  /\ i = Len(lines)
  /\ Len(TimingLines) = 2

MaxOps == 4

CleanupEvery == 100

\* _hash_key: an md5 digest, taken to be free of collisions
HashKey(key) == <<"md5", key>>

\* (faulty variant: an entry counts as expired at its expiry time already)
IsExpiredInMut(ttl, k, t) == IF k \notin DOMAIN ttl THEN TRUE ELSE t >= ttl[k]
\* _is_expired
IsExpiredIn(ttl, k, t) == IF k \notin DOMAIN ttl THEN TRUE ELSE t > ttl[k]

\* dict.pop(k, None)
Pop(d, k) == Remove(d, {k})

Maps(c, ttl) == [cache |-> c, ttl |-> ttl]

\* _cleanup_expired
CleanupMaps(c, ttl, t) ==
  LET expired_keys == { k \in DOMAIN ttl : t > ttl[k] }
  IN  Maps(Remove(c, expired_keys), Remove(ttl, expired_keys))

\* get: the maps afterwards and the value returned
MgrGet(c, ttl, key, t) ==
  LET hashed_key == HashKey(key)
  IN  IF hashed_key \notin DOMAIN c
        THEN [cache |-> c, ttl |-> ttl, value |-> <<>>]
      ELSE IF IsExpiredIn(ttl, hashed_key, t)
        THEN [cache |-> Pop(c, hashed_key), ttl |-> Pop(ttl, hashed_key),
              value |-> <<>>]
        ELSE [cache |-> c, ttl |-> ttl, value |-> <<c[hashed_key]>>]

\* set
MgrSet(c, ttl, key, value, ttl_seconds, t) ==
  LET hashed_key == HashKey(key)
      m == IF Cardinality(DOMAIN c) % CleanupEvery = 0
             THEN CleanupMaps(c, ttl, t) ELSE Maps(c, ttl)
  IN  Maps(Put(m.cache, hashed_key, value),
           Put(m.ttl, hashed_key, t + ttl_seconds))

\* (faulty variant: the expiry of a deleted key is left behind)
MgrDeleteMut(c, ttl, key) == Maps(Pop(c, HashKey(key)), ttl)
\* delete
MgrDelete(c, ttl, key) ==
  LET hashed_key == HashKey(key)
  IN  Maps(Pop(c, hashed_key), Pop(ttl, hashed_key))

\* clear
MgrClear == Maps(<<>>, <<>>)

\* what the handlers store: keys, values, times to live
CacheKeyNames == {<<"a">>, <<"b">>}
CacheValues == {"v", "w"}
Ttls == {ResponseTtl, ContentTtl}

\* entries already in the cache when the model starts: none, or one short of
\* the count at which set runs the cleanup, all set at time 0
Prefills == {0, CleanupEvery - 1}
Filler(n) == { HashKey(Str(k)) : k \in 1..n }

Op(name, key, value, ttl_seconds, ret) ==
  [op |-> name, key |-> key, value |-> value, ttl |-> ttl_seconds,
   time |-> now, ret |-> ret]

CacheInit ==
  /\ \E n \in Prefills :
       /\ self_cache = [k \in Filler(n) |-> "v"]
       /\ self_ttl = [k \in Filler(n) |-> ResponseTtl]
       /\ written = [k \in Filler(n) |-> [value |-> "v", expiry |-> ResponseTtl]]
  /\ got = [op |-> "none", key |-> <<>>, value |-> "", ttl |-> 0, time |-> 0,
            ret |-> <<>>]
  /\ ApiIdle
  /\ content = <<>>
  /\ NoCall
  /\ NoVerdicts
  /\ NoService
  /\ NoWorkers

idle == <<call, verdicts, workers, service, request, response, cache, retrieved>>

Get(key) ==
  LET r == MgrGet(self_cache, self_ttl, key, now)
  IN  /\ steps < MaxOps
      /\ steps' = steps + 1
      /\ self_cache' = r.cache
      /\ self_ttl' = r.ttl
      /\ got' = Op("get", key, "", 0, r.value)
      /\ UNCHANGED <<written, now, idle>>

Set(key, value, ttl_seconds) ==
  LET r == MgrSet(self_cache, self_ttl, key, value, ttl_seconds, now)
  IN  /\ steps < MaxOps
      /\ steps' = steps + 1
      /\ self_cache' = r.cache
      /\ self_ttl' = r.ttl
      /\ got' = Op("set", key, value, ttl_seconds, <<>>)
      /\ written' = Put(written, HashKey(key),
                        [value |-> value, expiry |-> now + ttl_seconds])
      /\ UNCHANGED <<now, idle>>

Delete(key) ==
  LET r == MgrDelete(self_cache, self_ttl, key)
  IN  /\ steps < MaxOps
      /\ steps' = steps + 1
      /\ self_cache' = r.cache
      /\ self_ttl' = r.ttl
      /\ got' = Op("delete", key, "", 0, <<>>)
      /\ written' = Pop(written, HashKey(key))
      /\ UNCHANGED <<now, idle>>

Clear ==
  /\ steps < MaxOps
  /\ steps' = steps + 1
  /\ self_cache' = MgrClear.cache
  /\ self_ttl' = MgrClear.ttl
  /\ got' = Op("clear", <<>>, "", 0, <<>>)
  /\ written' = <<>>
  /\ UNCHANGED <<now, idle>>

\* time passes between two operations
Pass(d) ==
  /\ steps < MaxOps
  /\ steps' = steps + 1
  /\ now' = now + d
  /\ UNCHANGED <<manager, idle>>

CacheNext ==
  \/ \E key \in CacheKeyNames : Get(key)
  \/ \E key \in CacheKeyNames, value \in CacheValues, ttl_seconds \in Ttls :
       Set(key, value, ttl_seconds)
  \/ \E key \in CacheKeyNames : Delete(key)
  \/ Clear
  \/ \E d \in Lapses : Pass(d)

CacheSpec == CacheInit /\ [][CacheNext]_vars

\* the two maps as the one map of entries the handlers' cache is
Zipped(c, ttl) == [k \in DOMAIN c |-> [value |-> c[k], expiry |-> ttl[k]]]

(***************************************************************************)
(* The one-map description of the cache (CacheGet, CacheAfterGet,          *)
(* CacheSet) and the two-map description agree on every get and set.       *)
(***************************************************************************)
CacheManagerZipped ==
  [][ now' = now =>
        LET z == Zipped(self_cache, self_ttl)
            h == HashKey(got'.key)
        IN  /\ got'.op = "get" =>
                  /\ got'.ret = CacheGet(z, h, now)
                  /\ Zipped(self_cache', self_ttl') = CacheAfterGet(z, h, now)
            /\ got'.op = "set" =>
                  Zipped(self_cache', self_ttl')
                    = CacheSet(z, h, got'.value, got'.ttl, now) ]_vars

(***************************************************************************)
(* C25: get(k) returns the value of the most recent set(k, v, ttl) as long *)
(* as the time has not passed that entry's expiry (set time plus ttl) and  *)
(* k was not deleted or cleared since; otherwise it returns None.  A get   *)
(* never returns an expired value, and after a get of a key whose entry    *)
(* has expired the key is in neither map.                                  *)
(***************************************************************************)
Live(k, t) == k \in DOMAIN written /\ t <= written[k].expiry

C25_GetReturnsLatestSet ==
  got.op = "get" =>
    LET k == HashKey(got.key)
    IN  /\ got.ret = IF Live(k, got.time) THEN <<written[k].value>> ELSE <<>>
        /\ (k \in DOMAIN written /\ got.time > written[k].expiry)
             => k \notin DOMAIN self_cache /\ k \notin DOMAIN self_ttl

\* both outcomes: a later get returns the value set again under the key with
\* the time exactly at its expiry, after an earlier entry of the key expired
C25_Witness ==
  /\ got.op = "get"
  /\ got.ret = <<"w">>
  /\ got.time = written[HashKey(got.key)].expiry
  /\ got.time > ContentTtl

\* a get found an expired entry and removed it
C25_ExpiredWitness ==
  /\ got.op = "get"
  /\ got.ret = <<>>
  /\ HashKey(got.key) \in DOMAIN written
  /\ got.time > written[HashKey(got.key)].expiry

(***************************************************************************)
(* C30: after every CacheManager operation (set, get, delete, clear and    *)
(* the cleanup that set runs) the value map and the expiry map have the    *)
(* same key set.                                                           *)
(***************************************************************************)
C30_SameKeys == DOMAIN self_cache = DOMAIN self_ttl

\* a set has run the cleanup, which removed expired entries from both maps,
\* and a key was deleted afterwards
C30_Witness ==
  /\ got.op = "delete"
  /\ Cardinality(DOMAIN self_cache) = 1
  /\ \E k \in DOMAIN written : k \notin DOMAIN self_cache /\ k \in Filler(CleanupEvery)

(***************************************************************************)
(* subtitle_service.py: SubtitleService, the XML-RPC client app.py uses.   *)
(*   token              self.token: <<>> for None, <<n>> for the token of  *)
(*                      the n-th remote call, a successful LogIn           *)
(*   last_request_time  self.last_request_time                             *)
(*   threads            for each thread its position in the method it      *)
(*                      runs: pc, the method, the remote call it is about  *)
(*                      to make (stage), the end of its sleep (wake) and   *)
(*                      the number of its invocation (inv)                 *)
(*   remote_calls       (ghost) the remote calls issued, in order: method, *)
(*                      time, token passed, thread, invocation, outcome    *)
(* _wait_for_rate_limit is three steps (Read, Wake, Issue): it reads the   *)
(* clock and self.last_request_time, sleeps if it must, then stamps        *)
(* self.last_request_time; the remote call follows the stamp at once.      *)
(***************************************************************************)
MaxTime == 5
MaxInvocations == 3
\* the same two bounds when several handlers share the instance
MaxSharedTime == 2
MaxSharedInvocations == 2

MinRequestInterval == 1

Threads == {1, 2}
Methods == {"search", "download", "logout"}

Frame0 == [pc |-> "idle", method |-> "none", stage |-> "none", wake |-> 0, inv |-> 0]

\* the outcomes of a remote call: status '200 OK', another status, an exception
Outcomes(stage) ==
  IF stage = "logout" THEN {"ok", "error"} ELSE {"ok", "denied", "error"}

ServiceInitFor(ths) ==
  /\ token = <<>>
  /\ last_request_time = 0
  /\ threads = [th \in ths |-> Frame0]
  /\ remote_calls = <<>>
  /\ request = <<>> /\ response = <<>> /\ cache = <<>> /\ retrieved = <<>>
  /\ now = MinRequestInterval
  /\ steps = 0
  /\ content = <<>>
  /\ NoCall
  /\ NoVerdicts
  /\ NoManager
  /\ NoWorkers

Shared == Cardinality(DOMAIN threads) > 1
Budget == IF Shared THEN MaxSharedInvocations ELSE MaxInvocations
Horizon == IF Shared THEN MaxSharedTime ELSE MaxTime

off_service == <<call, verdicts, workers, manager, request, response, cache, retrieved>>

\* (faulty variant: a call is made without a session)
EnsureStageMut(method) == method
\* _ensure_logged_in: the remote call a search or download starts with
EnsureStage(method) == IF token = <<>> THEN "login" ELSE method

\* search_subtitles, get_download_link, logout up to their first
\* _wait_for_rate_limit
Invoke(th, method) ==
  /\ threads[th].pc = "idle"
  /\ steps < Budget
  /\ steps' = steps + 1
  /\ threads' =
       [threads EXCEPT ![th] =
          IF method = "logout"
            THEN IF token # <<>>
                   THEN [pc |-> "read", method |-> method, stage |-> "logout",
                         wake |-> 0, inv |-> steps + 1]
                   ELSE [Frame0 EXCEPT !.inv = steps + 1]
            ELSE [pc |-> "read", method |-> method, stage |-> EnsureStage(method),
                  wake |-> 0, inv |-> steps + 1]]
  /\ UNCHANGED <<token, last_request_time, remote_calls, now, off_service>>

\* min_request_interval - time_since_last when positive
SleepTime(time_since_last) ==
  IF time_since_last < MinRequestInterval
    THEN MinRequestInterval - time_since_last ELSE 0

\* _wait_for_rate_limit: current_time, time_since_last, the test
Read(th) ==
  LET time_since_last == now - last_request_time
      sleep_time == SleepTime(time_since_last)
  IN  /\ threads[th].pc = "read"
      /\ threads' = [threads EXCEPT ![th].pc = IF sleep_time > 0 THEN "sleep" ELSE "issue",
                                    ![th].wake = now + sleep_time]
      /\ UNCHANGED <<token, last_request_time, remote_calls, now, steps, off_service>>

\* time.sleep returns
Wake(th) ==
  /\ threads[th].pc = "sleep"
  /\ now >= threads[th].wake
  /\ threads' = [threads EXCEPT ![th].pc = "issue"]
  /\ UNCHANGED <<token, last_request_time, remote_calls, now, steps, off_service>>

\* self.last_request_time = time.time(), then the remote call and what the
\* method does with its outcome
Issue(th, outcome) ==
  LET f == threads[th]
      issued == <<Len(remote_calls) + 1>>
  IN  /\ f.pc = "issue"
      /\ outcome \in Outcomes(f.stage)
      /\ last_request_time' = now
      /\ remote_calls' = Append(remote_calls,
           [method |-> f.stage, time |-> now, token |-> token, thread |-> th,
            inv |-> f.inv, outcome |-> outcome])
      /\ token' = IF f.stage = "login" /\ outcome = "ok" THEN issued
                  ELSE IF f.stage = "logout" /\ outcome = "ok" THEN <<>>
                  ELSE token
      /\ threads' = [threads EXCEPT ![th] =
           IF f.stage = "login" /\ outcome = "ok"
             THEN [f EXCEPT !.pc = "read", !.stage = f.method]
             ELSE [Frame0 EXCEPT !.inv = f.inv]]
      /\ UNCHANGED <<now, steps, off_service>>

\* the clock advances
Tick ==
  /\ now < Horizon
  /\ now' = now + 1
  /\ UNCHANGED <<service, steps, off_service>>

ServiceStep(th) ==
  \/ \E method \in Methods : Invoke(th, method)
  \/ Read(th)
  \/ Wake(th)
  \/ \E outcome \in {"ok", "denied", "error"} : Issue(th, outcome)

\* one request handler at a time
ServiceInit == ServiceInitFor({1})
ServiceNext == ServiceStep(1) \/ Tick
ServiceSpec == ServiceInit /\ [][ServiceNext]_vars

\* several request handlers on the one instance
SharedServiceInit == ServiceInitFor(Threads)
SharedServiceNext == (\E th \in Threads : ServiceStep(th)) \/ Tick
SharedServiceSpec == SharedServiceInit /\ [][SharedServiceNext]_vars

(***************************************************************************)
(* C28: every SearchSubtitles and DownloadSubtitles call is made with a    *)
(* valid session token, that of the latest successful LogIn with no        *)
(* successful LogOut since; a LogIn is made only while the service holds   *)
(* no token; and an invocation whose LogIn failed makes no further call.   *)
(***************************************************************************)
IsLogin(c) == c.method = "login" /\ c.outcome = "ok"
IsLogout(c) == c.method = "logout" /\ c.outcome = "ok"

\* the token of the session open before the k-th remote call, <<>> if none
RECURSIVE Session(_)
Session(k) ==
  IF k <= 1 THEN <<>>
  ELSE IF IsLogin(remote_calls[k - 1]) THEN <<k - 1>>
  ELSE IF IsLogout(remote_calls[k - 1]) THEN <<>>
  ELSE Session(k - 1)

C28_TokenDiscipline ==
  \A k \in 1..Len(remote_calls) :
    LET c == remote_calls[k]
    IN  /\ c.method \in {"search", "download"}
             => c.token # <<>> /\ c.token = Session(k)
        /\ c.method = "login" => c.token = <<>> /\ Session(k) = <<>>
        /\ (c.method = "login" /\ c.outcome # "ok")
             => \A j \in 1..Len(remote_calls) : j > k => remote_calls[j].inv # c.inv

\* a search logged in first, a download reused its token, a logout ended the
\* session
C28_Witness ==
  /\ Len(remote_calls) = 4
  /\ [k \in 1..4 |-> remote_calls[k].method]
       = <<"login", "search", "download", "logout">>
  /\ \A k \in 1..4 : remote_calls[k].outcome = "ok"
  /\ token = <<>>

\* after a logout the next download logged in again
C28_AgainWitness ==
  /\ Len(remote_calls) = 5
  /\ [k \in 1..5 |-> remote_calls[k].method]
       = <<"login", "search", "logout", "login", "download">>
  /\ remote_calls[5].token = <<4>>

\* a failed LogIn ended its invocation without a search
C28_FailedLoginWitness ==
  /\ Len(remote_calls) = 1
  /\ remote_calls[1].method = "login" /\ remote_calls[1].outcome = "denied"
  /\ steps = MaxInvocations

(***************************************************************************)
(* C29: any two consecutive remote calls of one SubtitleService instance   *)
(* are at least min_request_interval apart, also when several request      *)
(* handlers call the service concurrently.                                 *)
(***************************************************************************)
Spaced ==
  \A k \in 2..Len(remote_calls) :
    remote_calls[k].time - remote_calls[k - 1].time >= MinRequestInterval

C29_RateLimit == Spaced

\* C29, one handler at a time: the interval is kept
C29_RateLimitOneHandler == Spaced /\ Len(remote_calls) <= 2 * MaxInvocations

(***************************************************************************)
(* app.py: search_subtitles under with_timeout(25), next to the download   *)
(* and content handlers, on one cache.                                     *)
(*   request   for a search also: the subtitles the service returned and   *)
(*             where the alarm interrupted the request ("none" if it did   *)
(*             not)                                                        *)
(***************************************************************************)
SearchTtl == 3600
TimeoutSeconds == 25

\* what __init__ of the SubtitleService imported by app.py sets
ServiceAttributes ==
  { "base_url", "username", "password", "user_agent", "token",
    "last_request_time", "min_request_interval", "server" }

\* the query parameter, absent or given (imdb_id and moviehash absent)
Queries == { <<>>, <<"x">> }

\* subtitle_service.search_subtitles(search_params) when nothing interrupts it
Found == << [id |-> 1, file_id |-> 1] >>

\* a search that reaches the service: what the service finds, how many
\* seconds the request takes, and the point at which SIGALRM raises
\* TimeoutException if that is more than TimeoutSeconds:
\*   service   inside subtitle_service.search_subtitles (a login, a remote
\*             call, the sleep of the rate limit)
\*   handler   inside the handler's try block, after the service returned
\*   wrapper   outside the handler's try block, after the handler returned
\* (the clock of the cache is not advanced by the seconds a request takes)
AlarmPoints == {"service", "handler", "wrapper"}
SearchOutcomes ==
  [subtitles : {Found, <<>>}, seconds : {1, TimeoutSeconds + 1},
   point : AlarmPoints]

\* signal.alarm(seconds) ... signal.alarm(0)
Alarm(outcome) ==
  IF outcome.seconds > TimeoutSeconds THEN outcome.point ELSE "none"

\* search_subtitles of the service: its except Exception clause catches the
\* TimeoutException and returns []
Subtitles(outcome) ==
  IF Alarm(outcome) = "service" THEN <<>> ELSE outcome.subtitles

\* if not subtitles: reads subtitle_service.api_key
NoSubtitles ==
  IF "api_key" \notin ServiceAttributes
    THEN Error(500, "Search failed: object has no attribute api_key")
    ELSE Error(404, "No subtitles found for the given criteria")

\* (faulty variant: the result is stored whatever the service returned)
SearchStoreMut(c, key, subtitles, alarm, data) ==
  CacheSet(c, key, data, SearchTtl, now)
\* cache_manager.set(cache_key, response_data, 3600): reached only with
\* results and when no exception left the try block before it
SearchStore(c, key, subtitles, alarm, data) ==
  IF subtitles = <<>> \/ alarm = "handler"
    THEN c ELSE CacheSet(c, key, data, SearchTtl, now)

\* GET /api/v1/search?query=<query>&format=<fmt>
SearchSubtitles(query, fmt, outcome) ==
  LET preferred == Lower(fmt)
      key == CacheKey("search", query, preferred)
      cached == CacheGet(cache, key, now)
      c1 == CacheAfterGet(cache, key, now)
      subtitles == Subtitles(outcome)
      data == [results |-> subtitles, total_count |-> Len(subtitles),
               format |-> preferred]
      quiet == [endpoint |-> "search", file_id |-> query, format |-> fmt,
                time |-> now, fetched |-> FALSE, subtitles |-> <<>>,
                alarm |-> "none"]
  IN  /\ steps < MaxSteps
      /\ steps' = steps + 1
      /\ IF query = <<>>
           THEN /\ response' = Error(400, "At least one search parameter is required")
                /\ request' = quiet
                /\ UNCHANGED cache
         ELSE IF preferred \notin {Srt, Vtt}
           THEN /\ response' = Error(400, "Format must be either srt or vtt")
                /\ request' = quiet
                /\ UNCHANGED cache
         ELSE IF cached # <<>>
           THEN /\ response' = Ok(cached[1])
                /\ request' = quiet
                /\ cache' = c1
         ELSE /\ request' = [quiet EXCEPT !.fetched = TRUE,
                                          !.subtitles = subtitles,
                                          !.alarm = Alarm(outcome)]
              /\ cache' = SearchStore(c1, key, subtitles, Alarm(outcome), data)
              /\ response' =
                   IF Alarm(outcome) = "wrapper"
                     THEN Error(408, "Request timeout")
                   ELSE IF subtitles = <<>> THEN NoSubtitles
                   ELSE IF Alarm(outcome) = "handler"
                     THEN Error(500, "Search failed: Request timeout")
                     ELSE Ok(data)
      /\ UNCHANGED <<call, now, retrieved, verdicts, workers, manager, service>>

\* the requests of the three endpoints: one file, and the service fails,
\* returns an empty text or returns a text
ApiFileIds == {1}
ApiReplies == { r \in Replies : r.content # RawB }

ApiInit ==
  /\ request = [endpoint |-> "none", file_id |-> 0, format |-> Empty, time |-> 0,
                fetched |-> FALSE]
  /\ response = NoResponse
  /\ cache = NoEntries
  /\ now = 0
  /\ retrieved = [id \in FileIds |-> {}]
  /\ steps = 0
  /\ content = <<>>
  /\ NoCall
  /\ NoVerdicts
  /\ NoManager
  /\ NoService
  /\ NoWorkers

ApiNext ==
  \/ \E query \in Queries, fmt \in FormatParams, outcome \in SearchOutcomes :
       SearchSubtitles(query, fmt, outcome)
  \/ \E id \in ApiFileIds, fmt \in FormatParams, reply \in ApiReplies :
       GetSubtitleContent(id, fmt, reply)
  \/ \E id \in ApiFileIds, fmt \in FormatParams, reply \in ApiReplies :
       GetDownloadLink(id, fmt, reply)
  \/ \E d \in Lapses : Elapse(d)

ApiSpec == ApiInit /\ [][ApiNext]_vars

\* the cache key of a request
KeyOf(req) == CacheKey(req.endpoint, req.file_id, Lower(req.format))

\* this step handled a request
Served == steps' = steps + 1 /\ now' = now

IsSearch(req) == req.endpoint = "search"

(***************************************************************************)
(* C22: a search request that runs into the 25 second alarm is answered    *)
(* with HTTP 408 'Request timeout', whatever point of the handler,         *)
(* including the remote search call, the alarm interrupts.                 *)
(***************************************************************************)
C22_TimeoutIs408 ==
  (IsSearch(request) /\ request.alarm # "none")
    => response = Error(408, "Request timeout")

(***************************************************************************)
(* C23: a search that finds no subtitles is answered 404 'No subtitles     *)
(* found' with an empty list (or the 200 demo notice), never 500, and      *)
(* writes nothing to the cache.                                            *)
(***************************************************************************)
C23_NoResultsIs404 ==
  (IsSearch(request) /\ request.fetched /\ request.subtitles = <<>>
     /\ request.alarm = "none")
    => /\ response.status \in {404, 200}
       /\ KeyOf(request) \notin DOMAIN cache

(***************************************************************************)
(* C24: search, download and content reject a format outside {srt, vtt}    *)
(* with 400 before reading the cache or contacting the service, so nothing *)
(* is served or cached under another format name.                          *)
(***************************************************************************)
C24_FormatChecked ==
  /\ (request.endpoint # "none" /\ Lower(request.format) \notin {Srt, Vtt})
       => response.status = 400 /\ ~request.fetched
  /\ \A k \in DOMAIN cache : k[3] \in {Srt, Vtt}

(***************************************************************************)
(* C26: a failed or empty retrieval is never cached: a request that        *)
(* contacted the service and was answered 404 or 500 wrote no cache entry, *)
(* and its key is not in the cache afterwards, so the next identical       *)
(* request misses and contacts the service again.                          *)
(***************************************************************************)
C26_FailureNotCached ==
  [][ (Served /\ request'.fetched /\ response'.status \in {404, 500})
        => /\ KeyOf(request') \notin DOMAIN cache'
           /\ \A k \in DOMAIN cache' : k \in DOMAIN cache /\ cache'[k] = cache[k]
    ]_vars

\* a search found nothing while the cache held entries of earlier requests
C26_Witness ==
  /\ IsSearch(request)
  /\ request.fetched /\ request.subtitles = <<>> /\ request.alarm = "none"
  /\ response.status = 500
  /\ DOMAIN cache # {}
  /\ KeyOf(request) \notin DOMAIN cache

\* the download and the content endpoint after a failed or empty retrieval
C26_DownloadWitness ==
  /\ request.endpoint \in {"download", "content"}
  /\ request.fetched /\ response.status \in {404, 500}
  /\ DOMAIN cache # {}

(***************************************************************************)
(* C27: cache first.  When the cache holds an unexpired entry for the      *)
(* request's key, the endpoint answers with the cached value and does not  *)
(* contact the subtitle service; the service is contacted only on a miss.  *)
(***************************************************************************)
C27_CacheFirst ==
  [][ Served =>
        LET key == KeyOf(request')
            hit == key \in DOMAIN cache /\ now <= cache[key].expiry
        IN  /\ hit => /\ ~request'.fetched
                      /\ response' = Ok(cache[key].value)
                      /\ retrieved' = retrieved
            /\ request'.fetched => ~hit
    ]_vars

\* a search answered from the cache some time after it was stored
C27_SearchWitness ==
  /\ IsSearch(request)
  /\ ~request.fetched
  /\ response.status = 200
  /\ now > 0

\* a request answered from the cache at the very end of its entry's life
C27_Witness ==
  /\ request.endpoint # "none"
  /\ ~request.fetched
  /\ response.status = 200
  /\ KeyOf(request) \in DOMAIN cache
  /\ now = cache[KeyOf(request)].expiry
  /\ now > 0

====
